---- MODULE Spec2Model ----
(***************************************************************************)
(* A model of the adapter invocation pipeline of aimpact-sdk-v2:           *)
(*   - AdapterClient.callAdapter: validation, the retry loop, backoff;     *)
(*   - AdapterExecutor: runBeforeLLM, runAfterLLM, runParallel;            *)
(*   - HealthManager: startMonitoring, stopMonitoring, checkSystemHealth.  *)
(* JavaScript runs the code on one thread: a handler runs from one await   *)
(* to the next without interruption.  One action of the model is one such  *)
(* run-to-suspension: an entry point up to its first pending await, the    *)
(* arrival of a transport response, the end of a backoff sleep, a timer    *)
(* tick.                                                                   *)
(*                                                                         *)
(* Optional JavaScript values (undefined / null or a value) are sequences  *)
(* of length 0 or 1: <<>> is undefined, <<v>> is the value v.              *)
(***************************************************************************)
EXTENDS Integers, Sequences, FiniteSets, TLC

VARIABLES
    retry,            \* AdapterConfig.retry: the fields the caller set
    heap,             \* the context objects: the caller's and runBeforeLLM's/runParallel's copy
    calls,            \* every callAdapter invocation of the client, in invocation order
    settled,          \* history: the indexes of the settled calls, in the order they settled
    run,              \* the AdapterExecutor entry point in progress, if any
    checkInterval,    \* HealthManager.checkInterval: <<>> or <<timer handle>>
    timers,           \* the interval timers that are active in the event loop
    healthState,      \* HealthManager.healthState
    lastSystemCheck,  \* HealthManager.lastSystemCheck
    cycles,           \* every execution of checkSystemHealth, in start order
    lastOp            \* history: the last HealthManager step: "start", "restart" (a start
                      \* while a timer was active), "stop", or "other" (a tick, a check, a probe)

vars ==
    <<retry, heap, calls, settled, run,
      checkInterval, timers, healthState, lastSystemCheck, cycles, lastOp>>

managerVars == <<checkInterval, timers, healthState, lastSystemCheck>>
monitorVars == <<managerVars, cycles, lastOp>>

(***************************************************************************)
(* Bounds of the model.                                                    *)
(***************************************************************************)
\* the largest maxAttempts a caller sets in AdapterConfig.retry
MaxAttemptsCfg == 2
\* the longest adapter list handed to an AdapterExecutor entry point
MaxChain == 2
\* the largest number of timers one behaviour creates (calls of startMonitoring)
MaxTimers == 2
\* the largest number of executions of checkSystemHealth in one behaviour
MaxCycles == 2

(***************************************************************************)
(* Generic helpers.                                                        *)
(***************************************************************************)
None == <<>>
Some(v) == <<v>>
Range(s) == {s[i] : i \in DOMAIN s}
Min(a, b) == IF a <= b THEN a ELSE b

RECURSIVE Pow(_, _)
\* Math.pow for a non-negative integer exponent
Pow(b, e) == IF e <= 0 THEN 1 ELSE b * Pow(b, e - 1)

(***************************************************************************)
(* adapterRegistry.ts                                                      *)
(***************************************************************************)
\* the keys of the adapterRegistry literal, in the order it lists them
RegistryEntries ==
    << "pdf-text-extractor", "persona-legal", "vector-search-legal",
       "risk-analyzer", "slack-sender", "db-logger", "telegram-alert" >>

\* Object.keys(adapterRegistry): the own keys, in insertion order.  Which
\* identifiers exist does not matter to the pipeline: the model keeps the
\* first two of them.
adapterRegistry == SubSeq(RegistryEntries, 1, 2)

\* The registry is an object literal, so its prototype is Object.prototype:
\* these are the property names it inherits.
ObjectPrototypeKeys ==
    { "constructor", "hasOwnProperty", "isPrototypeOf", "propertyIsEnumerable",
      "toLocaleString", "toString", "valueOf", "__proto__",
      "__defineGetter__", "__defineSetter__", "__lookupGetter__", "__lookupSetter__" }

\* `id in adapterRegistry`: the in operator looks through the prototype chain
isValidAdapterId(id) == id \in Range(adapterRegistry) \cup ObjectPrototypeKeys

(***************************************************************************)
(* Contexts: open mappings from keys to values.                            *)
(***************************************************************************)
EmptyContext == [k \in {} |-> 0]

\* Object.assign(target, source): the source's value wins for a shared key
Assign(target, source) ==
    [k \in DOMAIN target \cup DOMAIN source |->
        IF k \in DOMAIN source THEN source[k] ELSE target[k]]

(***************************************************************************)
(* The retry policy (client.ts).                                           *)
(***************************************************************************)
defaultRetryConfig ==
    [maxAttempts |-> 3, baseDelay |-> 1000, maxDelay |-> 10000, backoffMultiplier |-> 2]

RetryFields == DOMAIN defaultRetryConfig

\* a mutant of retryConfig: the defaults are spread last and win
retryConfigDefaultsLast == Assign(retry, defaultRetryConfig)

\* { ...this.defaultRetryConfig, ...this.config.retry }
retryConfig == Assign(defaultRetryConfig, retry)

\* a mutant of getRetryDelay: the exponent is the attempt number itself
getRetryDelayFromAttempt(attempt, cfg) ==
    LET delay == cfg.baseDelay * Pow(cfg.backoffMultiplier, attempt)
    IN  Min(delay, cfg.maxDelay)

getRetryDelay(attempt, cfg) ==
    LET delay == cfg.baseDelay * Pow(cfg.backoffMultiplier, attempt - 1)
    IN  Min(delay, cfg.maxDelay)

\* error.status >= 400 && error.status < 500 (false when status is undefined)
IsClientError(error) ==
    /\ error.status # None
    /\ error.status[1] >= 400
    /\ error.status[1] < 500

\* a mutant of shouldRetry: 4xx errors are retried like the others
shouldRetryAlsoClientErrors(error, attempt, maxAttempts) ==
    attempt < maxAttempts

\* a mutant of shouldRetry: a 4xx error stops the retries on the first attempt only
shouldRetryClientErrorsLater(error, attempt, maxAttempts) ==
    IF attempt >= maxAttempts THEN FALSE
    ELSE IF IsClientError(error) /\ attempt = 1 THEN FALSE
    ELSE TRUE

shouldRetry(error, attempt, maxAttempts) ==
    IF attempt >= maxAttempts THEN FALSE
    ELSE IF IsClientError(error) THEN FALSE
    ELSE TRUE

(***************************************************************************)
(* The transport: what one fetch of /run-adapter can come back with.       *)
(***************************************************************************)
\* response.statusText of the statuses the model uses
StatusText(status) ==
    CASE status = 200 -> "OK"
      [] status = 304 -> "Not Modified"
      [] status = 400 -> "Bad Request"
      [] status = 499 -> "Client Closed Request"
      [] status = 500 -> "Internal Server Error"
      [] OTHER -> "Service Unavailable"

\* an AdapterResponse body
Body(status, output, data, error) ==
    [status |-> status, output |-> output, data |-> data, error |-> error]

\* fetch resolved with an HTTP response whose body parses to `body`
Response(status, body) ==
    [kind |-> "response", status |-> status, body |-> body, message |-> ""]

\* fetch (or response.json()) rejected with an Error carrying `message`
Rejection(message) ==
    [kind |-> "reject", status |-> 0, body |-> Body("error", None, None, None),
     message |-> message]

\* the bodies an adapter of a runBeforeLLM chain answers with: an output (absent,
\* empty or not) and a context update (absent or not)
OkBodies ==
    { Body("ok", None, None, None),
      Body("ok", Some("y"), Some([x |-> 1]), None),
      Body("ok", Some(""), Some([x |-> 2, y |-> 1]), None),
      Body("ok", Some("z"), None, None),
      Body("ok", None, Some([x |-> 2, y |-> 1]), None) }

\* the bodies an adapter of runAfterLLM or runParallel answers with: a context update
UpdateBodies ==
    { Body("ok", None, data, None) :
        data \in {None, Some([x |-> 1]), Some([x |-> 2, y |-> 1])} }

ErrorBody == Body("error", None, None, Some("adapter refused"))

\* the statuses of a response that is not ok; 400 and 499 are the ends of [400,500)
FailureStatuses == {304, 400, 499, 500}

AllOutcomes ==
    {Response(200, b) : b \in {Body("ok", Some("y"), Some([x |-> 1]), None), ErrorBody}}
    \cup {Response(s, ErrorBody) : s \in FailureStatuses}
    \cup {Rejection("fetch failed")}

\* response.ok
ResponseOk(o) == o.kind = "response" /\ o.status >= 200 /\ o.status <= 299

\* the error the try block of callAdapter throws for an outcome that is not ok
ThrownError(adapterId, o) ==
    IF o.kind = "response"
    THEN [message |-> "Adapter " \o adapterId \o " failed: " \o StatusText(o.status),
          status |-> Some(o.status)]
    ELSE [message |-> o.message, status |-> None]

(***************************************************************************)
(* AdapterClient.callAdapter as a state machine over one invocation.       *)
(*   pc: "fetch"    awaiting the transport's answer to attempt `attempt`   *)
(*       "sleep"    awaiting the backoff delay after attempt `attempt`     *)
(*       "returned" the promise resolved with `result`                     *)
(*       "thrown"   the promise rejected with `thrown`                     *)
(* attempts, sleeps, firstOutcome and lastOutcome record what happened     *)
(* (they are not variables of the code).                                   *)
(***************************************************************************)
NewInvocation(adapterId, input, ctxRef) ==
    [adapterId |-> adapterId, input |-> input, ctxRef |-> ctxRef,
     attempt |-> 1, pc |-> "start", lastError |-> None,
     result |-> None, thrown |-> None,
     sent |-> None, delay |-> None,
     attempts |-> 0, sleeps |-> 0, firstOutcome |-> None, lastOutcome |-> None]

\* a mutant of errorResponse: the message is not taken from lastError
errorResponseUnknown(c) ==
    Body("error", None, None, Some("Unknown error occurred"))

\* the value callAdapter returns when it leaves the retry loop without a result
errorResponse(c) ==
    Body("error", None, None,
         Some(IF c.lastError # None THEN c.lastError[1].message
              ELSE "Unknown error occurred"))

\* the head of the retry loop: attempt <= maxAttempts, then the fetch of that attempt
LoopHead(c, h) ==
    IF c.attempt <= retryConfig.maxAttempts
    THEN [c EXCEPT !.pc = "fetch",
                   !.attempts = @ + 1,
                   !.sent = Some([adapterId |-> c.adapterId, input |-> c.input,
                                  context |-> h[c.ctxRef]])]
    ELSE [c EXCEPT !.pc = "returned", !.result = Some(errorResponse(c))]

\* callAdapter from its entry to its first await (or its end)
StartCall(adapterId, input, ctxRef, h) ==
    LET c == NewInvocation(adapterId, input, ctxRef)
    IN  IF ~isValidAdapterId(adapterId)
        THEN [c EXCEPT !.pc = "thrown",
                       !.thrown = Some("Invalid adapter ID: " \o adapterId)]
        ELSE LoopHead(c, h)

\* the catch block of callAdapter, for the outcome o of the attempt in flight
Catch(c, o, h) ==
    LET error == ThrownError(c.adapterId, o)
        c1 == [c EXCEPT !.lastError = Some(error),
                        !.lastOutcome = Some(o),
                        !.firstOutcome = IF @ = None THEN Some(o) ELSE @]
    IN  IF ~shouldRetry(error, c.attempt, retryConfig.maxAttempts)
        THEN [c1 EXCEPT !.pc = "returned", !.result = Some(errorResponse(c1))]
        ELSE IF c.attempt < retryConfig.maxAttempts
        THEN [c1 EXCEPT !.pc = "sleep", !.sleeps = @ + 1,
                        !.delay = Some(getRetryDelay(c.attempt, retryConfig))]
        ELSE LoopHead([c1 EXCEPT !.attempt = @ + 1], h)

\* a mutant of OnFetch: a body with status 'error' is thrown into the catch block
OnFetchThrowsErrorBody(c, o, h) ==
    IF ResponseOk(o) /\ o.body.status # "error"
    THEN [c EXCEPT !.pc = "returned", !.result = Some(o.body),
                   !.lastOutcome = Some(o),
                   !.firstOutcome = IF @ = None THEN Some(o) ELSE @]
    ELSE Catch(c, o, h)

\* callAdapter resumed by the transport's answer o to the attempt in flight
OnFetch(c, o, h) ==
    IF ResponseOk(o)
    THEN [c EXCEPT !.pc = "returned", !.result = Some(o.body),
                   !.lastOutcome = Some(o),
                   !.firstOutcome = IF @ = None THEN Some(o) ELSE @]
    ELSE Catch(c, o, h)

\* callAdapter resumed at the end of its backoff sleep: attempt++, then the loop head
OnSleep(c, h) == LoopHead([c EXCEPT !.attempt = @ + 1], h)

Completed(c) == c.pc \in {"returned", "thrown"}

(***************************************************************************)
(* AdapterExecutor (executor.ts).  A run is one call of an entry point.    *)
(* The functions below work on s = [run, calls, heap], the part of the     *)
(* state an entry point reads and writes, and run the entry point from     *)
(* one await to the next.                                                  *)
(***************************************************************************)
IdleRun ==
    [kind |-> "none", adapterIds |-> <<>>, input |-> None, given |-> None,
     pos |-> 0, currentInput |-> None,
     status |-> "idle", error |-> None, value |-> None]

\* `${error}` of an optional string
Interpolate(opt) == IF opt = None THEN "undefined" ELSE opt[1]

\* the truthiness of an optional string: undefined and "" are falsy
Truthy(opt) == opt # None /\ opt[1] # ""

Raise(s, message) ==
    [s EXCEPT !.run.status = "raised", !.run.error = Some(message)]

\* a mutant of ResultIsError: an 'error' result does not stop the chain
ResultIsErrorNever(result) == FALSE

\* status === 'error'
ResultIsError(result) == result.status = "error"

\* a mutant of NextInput: the output is taken whenever it is defined
NextInputIfDefined(currentInput, output) ==
    IF output # None THEN output ELSE currentInput

\* if (output) { currentInput = output }
NextInput(currentInput, output) ==
    IF Truthy(output) THEN output ELSE currentInput

\* a mutant of MergeData: a key the context already has keeps its value
MergeDataKeepsOld(context, data) ==
    IF data # None THEN Assign(data[1], context) ELSE context

\* if (data) { Object.assign(updatedContext, data) }
MergeData(context, data) ==
    IF data # None THEN Assign(context, data[1]) ELSE context

RECURSIVE BeforeLoop(_), BeforeResume(_)

\* a mutant of BeforeLoop: callAdapter is not awaited before the loop goes on
BeforeLoopNoAwait(s) ==
    IF s.run.pos > Len(s.run.adapterIds)
    THEN [s EXCEPT !.run.status = "returned",
                   !.run.value = Some([prompt |-> s.run.currentInput,
                                       context |-> Some(s.heap.local)])]
    ELSE LET c == StartCall(s.run.adapterIds[s.run.pos], s.run.currentInput,
                            "local", s.heap)
             s1 == [s EXCEPT !.calls = Append(@, c)]
         IN  IF Completed(c) THEN BeforeResume(s1)
             ELSE BeforeLoop([s1 EXCEPT !.run.pos = @ + 1])

\* runBeforeLLM at the head of its for loop; run.pos is the position of the next adapter
BeforeLoop(s) ==
    IF s.run.pos > Len(s.run.adapterIds)
    THEN [s EXCEPT !.run.status = "returned",
                   !.run.value = Some([prompt |-> s.run.currentInput,
                                       context |-> Some(s.heap.local)])]
    ELSE LET c == StartCall(s.run.adapterIds[s.run.pos], s.run.currentInput,
                            "local", s.heap)
             s1 == [s EXCEPT !.calls = Append(@, c)]
         IN  IF Completed(c) THEN BeforeResume(s1) ELSE s1

\* a mutant of BeforeResume: the data of a result is not merged into updatedContext
BeforeResumeNoMerge(s) ==
    LET c == s.calls[s.run.pos]
        adapterId == s.run.adapterIds[s.run.pos]
    IN  IF c.pc = "thrown" THEN Raise(s, c.thrown[1])
        ELSE LET r == c.result[1]
             IN  IF ResultIsError(r)
                 THEN Raise(s, "Adapter " \o adapterId \o " failed after retries: "
                                \o Interpolate(r.error))
                 ELSE BeforeLoop([s EXCEPT
                        !.run.currentInput = NextInput(@, r.output),
                        !.run.pos = @ + 1])

\* runBeforeLLM resumed when the callAdapter of position run.pos has settled
BeforeResume(s) ==
    LET c == s.calls[s.run.pos]
        adapterId == s.run.adapterIds[s.run.pos]
    IN  IF c.pc = "thrown" THEN Raise(s, c.thrown[1])
        ELSE LET r == c.result[1]
             IN  IF ResultIsError(r)
                 THEN Raise(s, "Adapter " \o adapterId \o " failed after retries: "
                                \o Interpolate(r.error))
                 ELSE BeforeLoop([s EXCEPT
                        !.run.currentInput = NextInput(@, r.output),
                        !.heap.local = MergeData(@, r.data),
                        !.run.pos = @ + 1])

RECURSIVE AfterLoop(_), AfterResume(_)

\* runAfterLLM at the head of its for loop
AfterLoop(s) ==
    IF s.run.pos > Len(s.run.adapterIds)
    THEN [s EXCEPT !.run.status = "returned",
                   !.run.value = Some([prompt |-> None, context |-> None])]
    ELSE LET c == StartCall(s.run.adapterIds[s.run.pos], None, "caller", s.heap)
             s1 == [s EXCEPT !.calls = Append(@, c)]
         IN  IF Completed(c) THEN AfterResume(s1) ELSE s1

\* a mutant of AfterResume: the result's data is merged into the context
AfterResumeMerging(s) ==
    LET c == s.calls[s.run.pos]
        adapterId == s.run.adapterIds[s.run.pos]
    IN  IF c.pc = "thrown" THEN Raise(s, c.thrown[1])
        ELSE LET r == c.result[1]
             IN  IF ResultIsError(r)
                 THEN Raise(s, "Post-LLM adapter " \o adapterId
                                \o " failed after retries: " \o Interpolate(r.error))
                 ELSE AfterLoop([s EXCEPT !.heap.caller = MergeData(@, r.data),
                                          !.run.pos = @ + 1])

\* runAfterLLM resumed when the callAdapter of position run.pos has settled:
\* only status and error of the result are read
AfterResume(s) ==
    LET c == s.calls[s.run.pos]
        adapterId == s.run.adapterIds[s.run.pos]
    IN  IF c.pc = "thrown" THEN Raise(s, c.thrown[1])
        ELSE LET r == c.result[1]
             IN  IF ResultIsError(r)
                 THEN Raise(s, "Post-LLM adapter " \o adapterId
                                \o " failed after retries: " \o Interpolate(r.error))
                 ELSE AfterLoop([s EXCEPT !.run.pos = @ + 1])

RECURSIVE MergePass(_, _)

\* a mutant of MergePass: the updates are assigned to the caller's object as well
MergePassInPlace(s, k) ==
    IF k > Len(s.run.adapterIds)
    THEN [s EXCEPT !.run.status = "returned",
                   !.run.value = Some([prompt |-> None, context |-> Some(s.heap.local)])]
    ELSE LET r == s.calls[k].result[1]
         IN  IF ResultIsError(r)
             THEN Raise(s, "Adapter " \o s.run.adapterIds[k] \o " failed after retries: "
                            \o Interpolate(r.error))
             ELSE MergePass([s EXCEPT !.heap.local = MergeData(@, r.data),
                                      !.heap.caller = MergeData(@, r.data)], k + 1)

\* results.forEach of runParallel from index k on, over updatedContext = heap.local
MergePass(s, k) ==
    IF k > Len(s.run.adapterIds)
    THEN [s EXCEPT !.run.status = "returned",
                   !.run.value = Some([prompt |-> None, context |-> Some(s.heap.local)])]
    ELSE LET r == s.calls[k].result[1]
         IN  IF ResultIsError(r)
             THEN Raise(s, "Adapter " \o s.run.adapterIds[k] \o " failed after retries: "
                            \o Interpolate(r.error))
             ELSE MergePass([s EXCEPT !.heap.local = MergeData(@, r.data)], k + 1)

\* Promise.all over promises of which some are rejected from the start: their
\* reactions run in list order, so the first one listed rejects the whole
FirstRejected(cs) ==
    CHOOSE k \in DOMAIN cs :
        cs[k].pc = "thrown" /\ \A j \in DOMAIN cs : cs[j].pc = "thrown" => k <= j

\* Promise.all resolves when every promise has resolved
AllSettled(cs) == \A k \in DOMAIN cs : cs[k].pc = "returned"

\* a mutant of ParallelJoin: the first 'error' result seen raises at once
ParallelJoinFailFast(s) ==
    LET failed == {k \in DOMAIN s.calls :
                     s.calls[k].pc = "returned" /\ s.calls[k].result[1].status = "error"}
        first == CHOOSE k \in failed : \A j \in failed : k <= j
    IN  IF \E k \in DOMAIN s.calls : s.calls[k].pc = "thrown"
        THEN Raise(s, s.calls[FirstRejected(s.calls)].thrown[1])
        ELSE IF failed # {}
        THEN Raise(s, "Adapter " \o s.run.adapterIds[first] \o " failed after retries: "
                       \o Interpolate(s.calls[first].result[1].error))
        ELSE IF AllSettled(s.calls)
        THEN MergePass([s EXCEPT !.heap.local = s.heap.caller], 1)
        ELSE s

\* runParallel resumed by Promise.all of batchCallAdapters: it rejects as soon
\* as one promise rejects, and resolves when all have resolved
ParallelJoin(s) ==
    IF \E k \in DOMAIN s.calls : s.calls[k].pc = "thrown"
    THEN Raise(s, s.calls[FirstRejected(s.calls)].thrown[1])
    ELSE IF AllSettled(s.calls)
    THEN MergePass([s EXCEPT !.heap.local = s.heap.caller], 1)
    ELSE s

\* the code that awaits call i, run when the state of call i has changed
Settle(s, i) ==
    IF s.run.status # "running" THEN s
    ELSE IF s.run.kind = "parallel" THEN ParallelJoin(s)
    ELSE IF ~Completed(s.calls[i]) THEN s
    ELSE IF s.run.kind = "before" THEN BeforeResume(s)
    ELSE IF s.run.kind = "after" THEN AfterResume(s)
    ELSE s

State == [run |-> run, calls |-> calls, heap |-> heap]

\* the next state is s; the calls that settled in the step join the history
Becomes(s) ==
    /\ run' = s.run
    /\ calls' = s.calls
    /\ heap' = s.heap
    /\ settled' = settled \o
          SelectSeq([k \in 1..Len(s.calls) |-> k],
                    LAMBDA k : Completed(s.calls[k])
                               /\ (k > Len(calls) \/ ~Completed(calls[k])))

(***************************************************************************)
(* Actions of the client and the executor.                                 *)
(***************************************************************************)
\* the inputs of the model
AdapterIdInputs == {"pdf-text-extractor", "persona-legal", "unknown-adapter", "toString"}
ChainIdInputs == {"pdf-text-extractor", "persona-legal", "unknown-adapter"}
ContextInputs == {EmptyContext, [x |-> 0, u |-> 7]}
\* the context handed to the executor's entry points
ChainContext == [x |-> 0, u |-> 7]
InputInputs == {None, Some("x")}
\* the context literal of a health probe: { healthCheck: true }
ProbeContext == [healthCheck |-> TRUE]

BeforeOutcomes ==
    {Response(200, b) : b \in OkBodies \cup {ErrorBody}}
    \cup {Response(400, ErrorBody), Response(500, ErrorBody)}

UpdateOutcomes ==
    {Response(200, b) : b \in UpdateBodies \cup {ErrorBody}}
    \cup {Response(400, ErrorBody), Response(500, ErrorBody)}

AdapterLists == UNION {[1..n -> ChainIdInputs] : n \in 0..MaxChain}

\* the caller sets each field of AdapterConfig.retry or leaves it unset
RetryInputs ==
    { Assign(Assign(a, b), Assign(c, d)) :
        a \in {EmptyContext} \cup {[maxAttempts |-> n] : n \in 0..MaxAttemptsCfg},
        b \in {EmptyContext, [baseDelay |-> 0], [baseDelay |-> 500]},
        c \in {EmptyContext, [maxDelay |-> 1200], [maxDelay |-> 30000]},
        d \in {EmptyContext, [backoffMultiplier |-> 1], [backoffMultiplier |-> 3]} }

\* the retry configurations of the executor's specifications
ChainRetryInputs == {[maxAttempts |-> n] : n \in 1..MaxAttemptsCfg}

\* client.callAdapter(adapterId, input, context) called directly: the one
\* invocation a behaviour of SpecCall follows
CallAdapter(adapterId, input) ==
    /\ run.kind = "none"
    /\ calls = <<>>
    /\ Becomes([State EXCEPT !.calls = Append(@, StartCall(adapterId, input, "caller", heap))])
    /\ UNCHANGED <<retry, monitorVars>>

\* the transport answers the attempt in flight of call i with outcome o
FetchResponds(i, o) ==
    /\ i \in DOMAIN calls
    /\ calls[i].pc = "fetch"
    /\ Becomes(Settle([State EXCEPT !.calls[i] = OnFetch(@, o, heap)], i))
    /\ UNCHANGED <<retry, monitorVars>>

\* the backoff sleep of call i ends
SleepElapses(i) ==
    /\ i \in DOMAIN calls
    /\ calls[i].pc = "sleep"
    /\ Becomes(Settle([State EXCEPT !.calls[i] = OnSleep(@, heap)], i))
    /\ UNCHANGED <<retry, monitorVars>>

\* executor.runBeforeLLM(input, adapterIds, context)
RunBeforeLLM(input, adapterIds) ==
    /\ run.status = "idle"
    /\ Becomes(BeforeLoop([State EXCEPT
            !.run = [IdleRun EXCEPT !.kind = "before", !.adapterIds = adapterIds,
                                    !.input = Some(input), !.given = Some(heap.caller),
                                    !.pos = 1, !.currentInput = Some(input),
                                    !.status = "running"],
            !.heap.local = heap.caller]))
    /\ UNCHANGED <<retry, monitorVars>>

\* executor.runAfterLLM(context, adapterIds)
RunAfterLLM(adapterIds) ==
    /\ run.status = "idle"
    /\ Becomes(AfterLoop([State EXCEPT
            !.run = [IdleRun EXCEPT !.kind = "after", !.adapterIds = adapterIds,
                                    !.given = Some(heap.caller),
                                    !.pos = 1, !.status = "running"]]))
    /\ UNCHANGED <<retry, monitorVars>>

\* executor.runParallel(input, adapterIds, context): batchCallAdapters maps every
\* identifier to a callAdapter promise, then Promise.all joins them
RunParallel(input, adapterIds) ==
    /\ run.status = "idle"
    /\ Becomes(ParallelJoin([State EXCEPT
            !.run = [IdleRun EXCEPT !.kind = "parallel", !.adapterIds = adapterIds,
                                    !.input = input, !.given = Some(heap.caller),
                                    !.status = "running"],
            !.calls = [k \in 1..Len(adapterIds) |->
                          StartCall(adapterIds[k], input, "caller", heap)]]))
    /\ UNCHANGED <<retry, monitorVars>>

\* new HealthManager(client), before any of its methods is called
MonitorIdle ==
    /\ checkInterval = None
    /\ timers = <<>>
    /\ healthState = EmptyContext
    /\ lastSystemCheck = None
    /\ cycles = <<>>
    /\ lastOp = "new"

\* a client that is called directly, once
InitCall ==
    /\ retry \in RetryInputs
    /\ heap \in {[caller |-> c, local |-> EmptyContext, probe |-> ProbeContext] :
                    c \in ContextInputs}
    /\ calls = <<>>
    /\ settled = <<>>
    /\ run = IdleRun
    /\ MonitorIdle

NextCall ==
    \/ \E id \in AdapterIdInputs, input \in InputInputs : CallAdapter(id, input)
    \/ \E o \in AllOutcomes : FetchResponds(1, o)
    \/ SleepElapses(1)

SpecCall == InitCall /\ [][NextCall]_vars

\* the same client under the scheduling the runtime provides: a timer that was set
\* (the setTimeout of sleep) fires; nothing obliges the transport to answer a fetch,
\* and callAdapter sets no timer of its own on it
SpecCallLive == SpecCall /\ WF_vars(SleepElapses(1))

\* an executor whose client is not monitoring
InitChain ==
    /\ retry \in ChainRetryInputs
    /\ heap = [caller |-> ChainContext, local |-> EmptyContext, probe |-> ProbeContext]
    /\ calls = <<>>
    /\ settled = <<>>
    /\ run = IdleRun
    /\ MonitorIdle

NextBefore ==
    \/ \E ids \in AdapterLists : RunBeforeLLM("x", ids)
    \/ \E i \in 1..MaxChain, o \in BeforeOutcomes : FetchResponds(i, o)
    \/ \E i \in 1..MaxChain : SleepElapses(i)

SpecBefore == InitChain /\ [][NextBefore]_vars

NextAfter ==
    \/ \E ids \in AdapterLists : RunAfterLLM(ids)
    \/ \E i \in 1..MaxChain, o \in UpdateOutcomes : FetchResponds(i, o)
    \/ \E i \in 1..MaxChain : SleepElapses(i)

SpecAfter == InitChain /\ [][NextAfter]_vars

\* an executor that runs one sequential chain, of either kind
NextSequential ==
    \/ \E ids \in AdapterLists : RunBeforeLLM("x", ids)
    \/ \E ids \in AdapterLists : RunAfterLLM(ids)
    \/ \E i \in 1..MaxChain, o \in UpdateOutcomes : FetchResponds(i, o)
    \/ \E i \in 1..MaxChain : SleepElapses(i)

SpecSequential == InitChain /\ [][NextSequential]_vars

NextParallel ==
    \/ \E ids \in AdapterLists : RunParallel(Some("x"), ids)
    \/ \E i \in 1..MaxChain, o \in UpdateOutcomes : FetchResponds(i, o)
    \/ \E i \in 1..MaxChain : SleepElapses(i)

SpecParallel == InitChain /\ [][NextParallel]_vars

\* an executor or its client called once, through any of the entry points that
\* take a context
NextEntry ==
    \/ \E id \in ChainIdInputs : CallAdapter(id, Some("x"))
    \/ \E ids \in AdapterLists : calls = <<>> /\ RunBeforeLLM("x", ids)
    \/ \E ids \in AdapterLists : calls = <<>> /\ RunAfterLLM(ids)
    \/ \E ids \in AdapterLists : calls = <<>> /\ RunParallel(Some("x"), ids)
    \/ \E i \in 1..MaxChain, o \in UpdateOutcomes : FetchResponds(i, o)
    \/ \E i \in 1..MaxChain : SleepElapses(i)

SpecEntry == InitChain /\ [][NextEntry]_vars

(***************************************************************************)
(* HealthManager (healthManager.ts).  A cycle is one execution of          *)
(* checkSystemHealth; a point in time (new Date()) is modelled by the      *)
(* index of the cycle that read the clock.  The functions below work on    *)
(* m = [cycles, healthState, lastSystemCheck].                             *)
(***************************************************************************)
\* the record checkSystemHealth and getLastSystemHealth put in place of a missing one
NotCheckedYet(now) ==
    [status |-> "unhealthy", latency |-> 0, lastCheck |-> now,
     message |-> Some("Not checked yet")]

\* a mutant of HealthOf: a latency of exactly 1000 already counts as high
HealthOfFromThreshold(c, latency, now) ==
    IF c.pc = "thrown"
    THEN [status |-> "unhealthy", latency |-> latency, lastCheck |-> now,
          message |-> c.thrown]
    ELSE IF c.result[1].status = "error"
    THEN [status |-> "unhealthy", latency |-> latency, lastCheck |-> now,
          message |-> c.result[1].error]
    ELSE LET status == IF latency >= 1000 THEN "degraded" ELSE "healthy"
         IN  [status |-> status, latency |-> latency, lastCheck |-> now,
              message |-> IF status = "degraded" THEN Some("High latency detected")
                          ELSE None]

\* what checkAdapterHealth returns for its settled callAdapter c and measured latency
HealthOf(c, latency, now) ==
    IF c.pc = "thrown"
    THEN [status |-> "unhealthy", latency |-> latency, lastCheck |-> now,
          message |-> c.thrown]
    ELSE IF c.result[1].status = "error"
    THEN [status |-> "unhealthy", latency |-> latency, lastCheck |-> now,
          message |-> c.result[1].error]
    ELSE LET status == IF latency > 1000 THEN "degraded" ELSE "healthy"
         IN  [status |-> status, latency |-> latency, lastCheck |-> now,
              message |-> IF status = "degraded" THEN Some("High latency detected")
                          ELSE None]

\* a mutant of WorseOf: the status of the adapter probed last is the overall status
WorseOfLatest(overallStatus, status) == status

\* the update of overallStatus in the loop of checkSystemHealth
WorseOf(overallStatus, status) ==
    IF status = "unhealthy" THEN "unhealthy"
    ELSE IF status = "degraded" /\ overallStatus = "healthy" THEN "degraded"
    ELSE overallStatus

\* a mutant of MapSet: setting a key drops the other entries of the map
MapSetAlone(map, key, value) == [k \in {key} |-> value]

\* this.healthState.set(adapterId, health)
MapSet(map, key, value) ==
    [k \in DOMAIN map \cup {key} |-> IF k = key THEN value ELSE map[k]]

\* the value of a cycle's call while no probe of the cycle is in flight
NoCall == NewInvocation("", None, "probe")

RECURSIVE CycleLoop(_, _), CycleResume(_, _, _)

\* a mutant of CycleResume: an unhealthy record ends the cycle without a snapshot
CycleResumeStopsOnUnhealthy(m, n, latency) ==
    LET cy == m.cycles[n]
        adapterId == adapterRegistry[cy.pos]
        health == HealthOf(cy.call, latency, n)
        m1 == [m EXCEPT
                !.cycles[n].call = NoCall,
                !.cycles[n].probed = Append(@, [result |-> cy.call.result,
                                                thrown |-> cy.call.thrown,
                                                latency |-> latency]),
                !.cycles[n].adapters = MapSet(@, adapterId, health),
                !.healthState = MapSet(@, adapterId, health),
                !.cycles[n].overallStatus = WorseOf(@, health.status),
                !.cycles[n].pos = @ + 1]
    IN  IF health.status = "unhealthy"
        THEN [m1 EXCEPT !.cycles[n].status = "raised"]
        ELSE CycleLoop(m1, n)

\* checkSystemHealth of cycle n at the head of its for loop
CycleLoop(m, n) ==
    LET cy == m.cycles[n]
    IN  IF cy.pos > Len(adapterRegistry)
        THEN [m EXCEPT !.lastSystemCheck = Some(n),
                       !.cycles[n].status = "done",
                       !.cycles[n].snapshot =
                            Some([status |-> cy.overallStatus, adapters |-> cy.adapters,
                                  timestamp |-> n])]
        ELSE LET c == StartCall(adapterRegistry[cy.pos], None, "probe", heap)
                 m1 == [m EXCEPT !.cycles[n].call = c]
             IN  IF Completed(c) THEN CycleResume(m1, n, 0) ELSE m1

\* checkSystemHealth of cycle n resumed when checkAdapterHealth has its record:
\* the callAdapter of the probe has settled, latency after the probe began
CycleResume(m, n, latency) ==
    LET cy == m.cycles[n]
        adapterId == adapterRegistry[cy.pos]
        health == HealthOf(cy.call, latency, n)
    IN  CycleLoop([m EXCEPT
            !.cycles[n].call = NoCall,
            !.cycles[n].probed = Append(@, [result |-> cy.call.result,
                                            thrown |-> cy.call.thrown,
                                            latency |-> latency]),
            !.cycles[n].adapters = MapSet(@, adapterId, health),
            !.healthState = MapSet(@, adapterId, health),
            !.cycles[n].overallStatus = WorseOf(@, health.status),
            !.cycles[n].pos = @ + 1], n)

\* checkSystemHealth from its entry to its first await (or its end)
CycleStart(m) ==
    LET n == Len(m.cycles) + 1
        cy == [pos |-> 1, call |-> NoCall,
               overallStatus |-> "healthy",
               adapters |-> [id \in Range(adapterRegistry) |-> NotCheckedYet(n)],
               status |-> "probing", snapshot |-> None, probed |-> <<>>]
    IN  CycleLoop([m EXCEPT !.cycles = Append(@, cy)], n)

Manager ==
    [cycles |-> cycles, healthState |-> healthState, lastSystemCheck |-> lastSystemCheck]

ManagerBecomes(m) ==
    /\ cycles' = m.cycles
    /\ healthState' = m.healthState
    /\ lastSystemCheck' = m.lastSystemCheck

\* clearInterval(handle): the timer of the handle, if any, is no longer active
ClearInterval(ts, handle) ==
    [h \in DOMAIN ts |-> ts[h] /\ Some(h) # handle]

ActiveTimers == {h \in DOMAIN timers : timers[h]}

\* getAdapterHealth(adapterId): this.healthState.get(adapterId)
getAdapterHealth(adapterId) ==
    IF adapterId \in DOMAIN healthState THEN Some(healthState[adapterId]) ELSE None

\* a mutant of StartMonitoring: the timer of an earlier start is not cancelled
StartMonitoringNoClear ==
    /\ Len(timers) < MaxTimers
    /\ Len(cycles) < MaxCycles
    /\ ManagerBecomes(CycleStart(Manager))
    /\ timers' = Append(timers, TRUE)
    /\ checkInterval' = Some(Len(timers) + 1)
    /\ lastOp' = IF checkInterval # None THEN "restart" ELSE "start"
    /\ UNCHANGED <<retry, heap, calls, settled, run>>

\* startMonitoring(interval): the interval only sets how far apart the ticks are;
\* the model lets an active timer tick at any time
StartMonitoring ==
    /\ Len(timers) < MaxTimers
    /\ Len(cycles) < MaxCycles
    /\ ManagerBecomes(CycleStart(Manager))
    /\ timers' = Append(IF checkInterval # None THEN ClearInterval(timers, checkInterval)
                        ELSE timers, TRUE)
    /\ checkInterval' = Some(Len(timers) + 1)
    /\ lastOp' = IF checkInterval # None THEN "restart" ELSE "start"
    /\ UNCHANGED <<retry, heap, calls, settled, run>>

\* a mutant of StopMonitoring: stopping also forgets the health records
StopMonitoringResets ==
    /\ timers' = ClearInterval(timers, checkInterval)
    /\ checkInterval' = None
    /\ healthState' = EmptyContext
    /\ lastSystemCheck' = None
    /\ lastOp' = "stop"
    /\ UNCHANGED <<retry, heap, calls, settled, run, cycles>>

\* a mutant of StopMonitoring: the handle is forgotten but the timer is not cleared
StopMonitoringLeavesTimer ==
    /\ checkInterval' = None
    /\ lastOp' = "stop"
    /\ UNCHANGED <<retry, heap, calls, settled, run, cycles, healthState, lastSystemCheck,
                   timers>>

\* stopMonitoring()
StopMonitoring ==
    /\ IF checkInterval # None
       THEN /\ timers' = ClearInterval(timers, checkInterval)
            /\ checkInterval' = None
       ELSE UNCHANGED <<timers, checkInterval>>
    /\ lastOp' = "stop"
    /\ UNCHANGED <<retry, heap, calls, settled, run, cycles, healthState, lastSystemCheck>>

\* the callback of setInterval runs for the active timer h
TimerTick(h) ==
    /\ h \in ActiveTimers
    /\ Len(cycles) < MaxCycles
    /\ ManagerBecomes(CycleStart(Manager))
    /\ lastOp' = "other"
    /\ UNCHANGED <<retry, heap, calls, settled, run, checkInterval, timers>>

\* checkSystemHealth() called from outside the manager (client.checkHealth)
CheckSystemHealth ==
    /\ Len(cycles) < MaxCycles
    /\ ManagerBecomes(CycleStart(Manager))
    /\ lastOp' = "other"
    /\ UNCHANGED <<retry, heap, calls, settled, run, checkInterval, timers>>

\* the transport answers the probe in flight of cycle n with outcome o; latency is
\* what Date.now() - startTime gives if the probe's callAdapter settles now
ProbeResponds(n, o, latency) ==
    /\ n \in DOMAIN cycles
    /\ cycles[n].status = "probing"
    /\ cycles[n].call.pc = "fetch"
    /\ LET c == OnFetch(cycles[n].call, o, heap)
           m == [Manager EXCEPT !.cycles[n].call = c]
       IN  ManagerBecomes(IF Completed(c) THEN CycleResume(m, n, latency) ELSE m)
    /\ lastOp' = "other"
    /\ UNCHANGED <<retry, heap, calls, settled, run, checkInterval, timers>>

\* the backoff sleep of the probe in flight of cycle n ends
ProbeSleepElapses(n) ==
    /\ n \in DOMAIN cycles
    /\ cycles[n].status = "probing"
    /\ cycles[n].call.pc = "sleep"
    /\ LET c == OnSleep(cycles[n].call, heap)
           m == [Manager EXCEPT !.cycles[n].call = c]
       IN  ManagerBecomes(IF Completed(c) THEN CycleResume(m, n, 0) ELSE m)
    /\ lastOp' = "other"
    /\ UNCHANGED <<retry, heap, calls, settled, run, checkInterval, timers>>

\* what a probe's fetch comes back with, and the latency the probe measures if
\* its callAdapter settles with it
ProbeAnswers ==
    { <<Response(200, Body("ok", None, None, None)), 1000>>,
      <<Response(200, Body("ok", None, None, None)), 1001>>,
      <<Response(500, ErrorBody), 1000>> }

\* the client of the monitor is configured with retry: { maxAttempts: 2 }
MonitorRetryInputs == {[maxAttempts |-> 2]}

\* a client whose health manager was just constructed
InitMonitor ==
    /\ retry \in MonitorRetryInputs
    /\ heap = [caller |-> EmptyContext, local |-> EmptyContext, probe |-> ProbeContext]
    /\ calls = <<>>
    /\ settled = <<>>
    /\ run = IdleRun
    /\ MonitorIdle

NextMonitor ==
    \/ StartMonitoring
    \/ StopMonitoring
    \/ CheckSystemHealth
    \/ \E h \in 1..MaxTimers : TimerTick(h)
    \/ \E n \in 1..MaxCycles, a \in ProbeAnswers : ProbeResponds(n, a[1], a[2])
    \/ \E n \in 1..MaxCycles : ProbeSleepElapses(n)

SpecMonitor == InitMonitor /\ [][NextMonitor]_vars

\* the manager driven by startMonitoring, stopMonitoring and its timers alone
NextSchedule ==
    \/ StartMonitoring
    \/ StopMonitoring
    \/ \E h \in 1..MaxTimers : TimerTick(h)
    \/ \E n \in 1..MaxCycles, a \in ProbeAnswers : ProbeResponds(n, a[1], a[2])
    \/ \E n \in 1..MaxCycles : ProbeSleepElapses(n)

SpecSchedule == InitMonitor /\ [][NextSchedule]_vars

\* the adapters whose every probe attempt fails
PermanentlyFailing == {adapterRegistry[1]}

\* the transport answers the probe in flight of cycle n, with a failure when the
\* adapter probed is a permanently failing one
ProbeRespondsOrFails(n, o, latency) ==
    /\ n \in DOMAIN cycles
    /\ cycles[n].status = "probing"
    /\ cycles[n].call.adapterId \in PermanentlyFailing => ~ResponseOk(o)
    /\ ProbeResponds(n, o, latency)

NextFailing ==
    \/ StartMonitoring
    \/ StopMonitoring
    \/ \E h \in 1..MaxTimers : TimerTick(h)
    \/ \E n \in 1..MaxCycles, a \in ProbeAnswers : ProbeRespondsOrFails(n, a[1], a[2])
    \/ \E n \in 1..MaxCycles : ProbeSleepElapses(n)

\* monitoring with a permanently failing adapter: an attempt in flight is answered in
\* the end (a failure is an answer) and a backoff timer that was set fires
SpecFailing ==
    /\ InitMonitor
    /\ [][NextFailing]_vars
    /\ WF_vars(\E n \in 1..MaxCycles, a \in ProbeAnswers :
                    ProbeRespondsOrFails(n, a[1], a[2]))
    /\ WF_vars(\E n \in 1..MaxCycles : ProbeSleepElapses(n))

(***************************************************************************)
(* What the claims speak of, stated without the operators of the model     *)
(* that compute it.                                                        *)
(***************************************************************************)
\* the transport outcome o is a failure with an HTTP status in [400,500)
ClientFailure(o) == o.kind = "response" /\ o.status \in 400..499

\* the transport outcome o is a failure: a response that is not 2xx, or a rejection
TransportFailure(o) == o.kind = "reject" \/ o.status \notin 200..299

\* the message of the failure o of an attempt for adapterId
FailureMessage(adapterId, o) ==
    IF o.kind = "reject" THEN o.message
    ELSE "Adapter " \o adapterId \o " failed: " \o StatusText(o.status)

\* call k returned an 'error' result
YieldsError(k) ==
    /\ k \in DOMAIN calls
    /\ calls[k].pc = "returned"
    /\ calls[k].result[1].status = "error"

\* call k returned an 'ok' result
Succeeds(k) ==
    /\ k \in DOMAIN calls
    /\ calls[k].pc = "returned"
    /\ calls[k].result[1].status = "ok"

\* the context update call k returned, <<>> if it returned none
UpdateOf(k) == calls[k].result[1].data

\* the calls among 1..k whose returned update writes key
Writers(k, key) ==
    {j \in 1..k : UpdateOf(j) # None /\ key \in DOMAIN UpdateOf(j)[1]}

Last(S) == CHOOSE j \in S : \A i \in S : i <= j

\* initial with the updates of calls 1..k merged in list order, last write winning per key
MergedInListOrder(initial, k) ==
    [key \in DOMAIN initial
              \cup UNION {DOMAIN UpdateOf(j)[1] : j \in {i \in 1..k : UpdateOf(i) # None}} |->
        IF Writers(k, key) = {} THEN initial[key]
        ELSE UpdateOf(Last(Writers(k, key)))[1][key]]

RECURSIVE LatestOutput(_, _)
\* the output of the last call among 1..k that produced one (a defined one when
\* countEmpty, a non-empty one otherwise), or the run's input if none did
LatestOutput(k, countEmpty) ==
    IF k = 0 THEN run.input
    ELSE LET out == calls[k].result[1].output
         IN  IF out # None /\ (countEmpty \/ out[1] # "")
             THEN out
             ELSE LatestOutput(k - 1, countEmpty)

\* the message runBeforeLLM and runParallel raise for the 'error' result of call k
FailedAfterRetries(k) ==
    "Adapter " \o run.adapterIds[k] \o " failed after retries: "
        \o Interpolate(calls[k].result[1].error)

(***************************************************************************)
(* C1.  A callAdapter invocation performs at most maxAttempts transport    *)
(* attempts (maxAttempts >= 1), and exactly one when its first attempt     *)
(* fails with an HTTP status in [400,500).                                 *)
(***************************************************************************)
C1_AttemptsBounded ==
    retryConfig.maxAttempts >= 1 =>
        \A k \in DOMAIN calls :
            /\ calls[k].attempts <= retryConfig.maxAttempts
            /\ (calls[k].firstOutcome # None /\ ClientFailure(calls[k].firstOutcome[1]))
                  => calls[k].attempts = 1 /\ calls[k].pc = "returned"

\* a call with attempts to spare ended after a first attempt that failed with a 4xx status
C1_Witness ==
    \E k \in DOMAIN calls :
        /\ retryConfig.maxAttempts >= 2
        /\ calls[k].pc = "returned"
        /\ calls[k].firstOutcome # None
        /\ ClientFailure(calls[k].firstOutcome[1])

(***************************************************************************)
(* C2.  For an identifier of the registry callAdapter never raises, and    *)
(* when its last attempt failed it returns an 'error' result whose error   *)
(* text is the message of that last failed attempt.                        *)
(***************************************************************************)
C2_FailureBecomesErrorResult ==
    \A k \in DOMAIN calls :
        calls[k].adapterId \in Range(adapterRegistry) =>
            /\ calls[k].pc # "thrown"
            /\ calls[k].thrown = None
            /\ (Completed(calls[k]) /\ calls[k].lastOutcome # None
                    /\ TransportFailure(calls[k].lastOutcome[1]))
                  => calls[k].result =
                        Some(Body("error", None, None,
                             Some(FailureMessage(calls[k].adapterId,
                                                 calls[k].lastOutcome[1]))))

\* a call ended after two failed attempts that failed in different ways
C2_Witness ==
    \E k \in DOMAIN calls :
        /\ calls[k].adapterId \in Range(adapterRegistry)
        /\ calls[k].pc = "returned"
        /\ calls[k].attempts >= 2
        /\ TransportFailure(calls[k].lastOutcome[1])
        /\ calls[k].firstOutcome # calls[k].lastOutcome

(***************************************************************************)
(* C3.  callAdapter with an identifier that is not in the adapter registry *)
(* raises, with no transport attempt and no backoff delay, and returns no  *)
(* result.                                                                 *)
(***************************************************************************)
C3_UnknownIdRaises ==
    \A k \in DOMAIN calls :
        calls[k].adapterId \notin Range(adapterRegistry) =>
            /\ calls[k].pc = "thrown"
            /\ calls[k].attempts = 0
            /\ calls[k].sleeps = 0
            /\ calls[k].result = None

(***************************************************************************)
(* C4.  In runBeforeLLM, when the adapter at position k yields an 'error'  *)
(* result, the run raises an error naming that adapter and carrying its    *)
(* error message, no adapter at a later position is invoked, and no        *)
(* prompt/context value is returned.                                       *)
(***************************************************************************)
C4_BeforeAbortsOnError ==
    \A k \in DOMAIN calls :
        YieldsError(k) =>
            /\ run.status = "raised"
            /\ run.error = Some(FailedAfterRetries(k))
            /\ Len(calls) = k
            /\ run.value = None

\* the first of two listed adapters exhausted its retries
C4_Witness ==
    /\ run.kind = "before"
    /\ Len(run.adapterIds) >= 2
    /\ YieldsError(1)
    /\ calls[1].attempts >= 2
    /\ TransportFailure(calls[1].lastOutcome[1])

(***************************************************************************)
(* C5 as claimed.  When every adapter of a runBeforeLLM chain succeeds,    *)
(* the returned prompt is the output of the last adapter that produced an  *)
(* output, each adapter received the latest output produced before it (or  *)
(* the initial input), and the returned context is the initial context     *)
(* with every update merged in list order.                                 *)
(***************************************************************************)
C5_PromptIsLastOutput ==
    run.status = "returned" =>
        /\ run.value[1].prompt = LatestOutput(Len(calls), TRUE)
        /\ \A k \in DOMAIN calls : calls[k].input = LatestOutput(k - 1, TRUE)
        /\ run.value[1].context = Some(MergedInListOrder(run.given[1], Len(calls)))

(***************************************************************************)
(* C5 as amended.  The same, with "produced an output" read as "produced   *)
(* a non-empty output": an empty string is treated like an absent output.  *)
(***************************************************************************)
C5_PromptIsLastNonEmptyOutput ==
    run.status = "returned" =>
        /\ Len(calls) = Len(run.adapterIds)
        /\ \A k \in DOMAIN calls : Succeeds(k)
        /\ run.value[1].prompt = LatestOutput(Len(calls), FALSE)
        /\ \A k \in DOMAIN calls : calls[k].input = LatestOutput(k - 1, FALSE)
        /\ run.value[1].context = Some(MergedInListOrder(run.given[1], Len(calls)))

\* two adapters succeeded: the first gave an output and wrote x, the second
\* gave the empty string and wrote x again
C5_Witness ==
    /\ run.kind = "before"
    /\ run.status = "returned"
    /\ Len(calls) = 2
    /\ "x" \in DOMAIN run.given[1]
    /\ calls[1].result[1].output = Some("y")
    /\ calls[1].result[1].data = Some([x |-> 1])
    /\ calls[2].result[1].output = Some("")
    /\ calls[2].result[1].data = Some([x |-> 2, y |-> 1])

(***************************************************************************)
(* C6.  When all adapters of a runParallel succeed, the run returns the    *)
(* initial context with the adapters' updates merged in list order, in     *)
(* whatever order the calls completed.                                     *)
(***************************************************************************)
C6_ParallelMergesInListOrder ==
    (run.kind = "parallel" /\ \A k \in DOMAIN run.adapterIds : Succeeds(k)) =>
        /\ run.status = "returned"
        /\ run.value[1].context = Some(MergedInListOrder(run.given[1], Len(calls)))

\* the second adapter completed before the first, and both wrote x
C6_Witness ==
    /\ run.kind = "parallel"
    /\ run.status = "returned"
    /\ settled = <<2, 1>>
    /\ calls[1].attempts >= 2
    /\ calls[1].result[1].data = Some([x |-> 1])
    /\ calls[2].result[1].data = Some([x |-> 2, y |-> 1])

(***************************************************************************)
(* C7 as claimed.  In runParallel, if an adapter yields an 'error' result, *)
(* the run raises, only after every listed invocation has completed, with  *)
(* an error naming the failing adapter of smallest list position.          *)
(***************************************************************************)
\* the smallest list position whose call yielded an 'error' result
FirstFailing ==
    CHOOSE k \in DOMAIN calls : YieldsError(k) /\ \A j \in 1..(k - 1) : ~YieldsError(j)

C9_AtMostOneTimer ==
    /\ Cardinality(ActiveTimers) <= 1
    /\ lastOp \in {"start", "restart"} =>
          /\ Cardinality(ActiveTimers) = 1
          /\ checkInterval = Some(Len(timers))
          /\ ActiveTimers = {Len(timers)}

\* startMonitoring was called twice in a row: nothing ran in between
C9_Witness ==
    /\ lastOp = "restart"
    /\ Len(timers) = 2
    /\ Len(cycles) = 2
    /\ \A n \in DOMAIN cycles : cycles[n].pos = 1 /\ cycles[n].call.attempts = 1
                                /\ cycles[n].call.pc = "fetch"

(***************************************************************************)
(* C10.  stopMonitoring with no active timer leaves the timer handle, the  *)
(* timers, the health records and the last system check time as they      *)
(* were; and every stopMonitoring leaves no handle behind, so that a       *)
(* second one in a row is such a call.                                     *)
(***************************************************************************)
C10_StopIsIdempotent ==
    [][lastOp' = "stop" =>
          /\ checkInterval' = None
          /\ ActiveTimers' = ActiveTimers \ Range(checkInterval)
          /\ checkInterval = None => UNCHANGED <<managerVars, cycles>>]_vars

\* stopMonitoring ran while no timer was active and health records were held
C10_Witness ==
    /\ lastOp = "stop"
    /\ checkInterval = None
    /\ ActiveTimers = {}
    /\ DOMAIN healthState # {}
    /\ lastSystemCheck # None
    /\ Len(timers) = 0


(***************************************************************************)
(* C11.  The status of the snapshot a checkSystemHealth returns is the     *)
(* worst case over the records the cycle produced, one for every adapter   *)
(* of the registry: unhealthy if any record is, otherwise degraded if any  *)
(* record is, otherwise healthy.                                           *)
(***************************************************************************)
\* the worst of a set of health statuses
WorstCase(statuses) ==
    IF "unhealthy" \in statuses THEN "unhealthy"
    ELSE IF "degraded" \in statuses THEN "degraded"
    ELSE "healthy"

C11_SnapshotIsWorstCase ==
    \A n \in DOMAIN cycles :
        cycles[n].snapshot # None =>
            LET snap == cycles[n].snapshot[1]
            IN  /\ DOMAIN snap.adapters = Range(adapterRegistry)
                /\ \A id \in DOMAIN snap.adapters :
                      /\ snap.adapters[id].lastCheck = n
                      /\ snap.adapters[id].message # Some("Not checked yet")
                /\ snap.status =
                      WorstCase({snap.adapters[id].status : id \in DOMAIN snap.adapters})

\* a cycle whose first adapter was degraded and whose second was healthy
C11_Witness ==
    \E n \in DOMAIN cycles :
        /\ cycles[n].snapshot # None
        /\ cycles[n].snapshot[1].status = "degraded"
        /\ cycles[n].snapshot[1].adapters[adapterRegistry[1]].status = "degraded"
        /\ cycles[n].snapshot[1].adapters[adapterRegistry[2]].status = "healthy"

(***************************************************************************)
(* C12.  Every probe of an adapter ends with a health record and the       *)
(* cycle goes on: the record is unhealthy with the error message when the  *)
(* probe's invocation raised or returned an 'error' result, otherwise      *)
(* degraded when the measured latency is above 1000 and healthy when it    *)
(* is at most 1000.                                                        *)
(***************************************************************************)
C12_ProbeAlwaysYieldsRecord ==
    \A n \in DOMAIN cycles :
        /\ cycles[n].status \in {"probing", "done"}
        /\ Len(cycles[n].probed) = cycles[n].pos - 1
        /\ \A k \in DOMAIN cycles[n].probed :
              LET p == cycles[n].probed[k]
                  r == cycles[n].adapters[adapterRegistry[k]]
              IN  /\ r.latency = p.latency
                  /\ r.lastCheck = n
                  /\ IF p.thrown # None
                     THEN r.status = "unhealthy" /\ r.message = p.thrown
                     ELSE IF p.result[1].status = "error"
                     THEN /\ r.status = "unhealthy"
                          /\ r.message = p.result[1].error
                          /\ r.message # None
                     ELSE IF p.latency > 1000
                     THEN r.status = "degraded"
                     ELSE r.status = "healthy"

\* one cycle probed an adapter that answered in exactly 1000 and one that failed
C12_Witness ==
    \E n \in DOMAIN cycles :
        /\ Len(cycles[n].probed) = 2
        /\ cycles[n].probed[1].result[1].status = "ok"
        /\ cycles[n].probed[1].latency = 1000
        /\ cycles[n].adapters[adapterRegistry[1]].status = "healthy"
        /\ cycles[n].probed[2].result[1].status = "error"
        /\ cycles[n].adapters[adapterRegistry[2]].status = "unhealthy"

(***************************************************************************)
(* C13.  Within one callAdapter invocation no delay precedes attempt 1,    *)
(* exactly one delay precedes every later attempt, and the delay waited    *)
(* before attempt k >= 2 is min(baseDelay * backoffMultiplier^(k-2),       *)
(* maxDelay); so no delay exceeds maxDelay.                                *)
(***************************************************************************)
\* the delay the retry policy in force prescribes before attempt k >= 2
BackoffBefore(k) ==
    LET power == [e \in 0..k |-> IF e = 0 THEN 1 ELSE retryConfig.backoffMultiplier]
        Product[e \in 0..k] == IF e = 0 THEN 1 ELSE power[e] * Product[e - 1]
        uncapped == retryConfig.baseDelay * Product[k - 2]
    IN  IF uncapped < retryConfig.maxDelay THEN uncapped ELSE retryConfig.maxDelay

C13_BackoffDelays ==
    \A i \in DOMAIN calls :
        LET c == calls[i]
        IN  /\ c.pc = "fetch" => c.sleeps = c.attempts - 1
            /\ c.pc = "sleep" => c.sleeps = c.attempts
            /\ c.attempts <= 1 /\ c.pc # "sleep" => c.sleeps = 0 /\ c.delay = None
            /\ c.sleeps >= 1 =>
                  /\ c.delay = Some(BackoffBefore(c.sleeps + 1))
                  /\ c.delay[1] <= retryConfig.maxDelay

\* the delay before attempt 3 is cut down to maxDelay, the one before attempt 2 was not
C13_Witness ==
    \E i \in DOMAIN calls :
        /\ calls[i].pc = "sleep"
        /\ calls[i].attempts = 2
        /\ retryConfig.baseDelay = 500
        /\ retryConfig.backoffMultiplier = 3
        /\ retryConfig.maxDelay = 1200
        /\ calls[i].delay = Some(1200)

(***************************************************************************)
(* C14.  The retry policy of every callAdapter takes each field from the   *)
(* retry configuration given at construction when the field is set, and    *)
(* otherwise the default (maxAttempts 3, baseDelay 1000, maxDelay 10000,   *)
(* backoffMultiplier 2); a call that fails in a retryable way to the end   *)
(* makes the number of attempts of that policy; and no step of a call      *)
(* changes the configuration.                                              *)
(***************************************************************************)
\* the value of a field of the policy: the configured one, or else the default
PolicyField(field, default) == IF field \in DOMAIN retry THEN retry[field] ELSE default

C14_PolicyFromConstruction ==
    /\ [](/\ retryConfig.maxAttempts = PolicyField("maxAttempts", 3)
          /\ retryConfig.baseDelay = PolicyField("baseDelay", 1000)
          /\ retryConfig.maxDelay = PolicyField("maxDelay", 10000)
          /\ retryConfig.backoffMultiplier = PolicyField("backoffMultiplier", 2)
          /\ \A i \in DOMAIN calls :
                (/\ calls[i].pc = "returned"
                 /\ calls[i].lastOutcome # None
                 /\ TransportFailure(calls[i].lastOutcome[1])
                 /\ ~ClientFailure(calls[i].lastOutcome[1]))
                    => calls[i].attempts = PolicyField("maxAttempts", 3))
    /\ [][retry' = retry]_vars

\* a client configured with a baseDelay only used the default maxAttempts to the end
C14_Witness ==
    /\ retry = [baseDelay |-> 500]
    /\ \E i \in DOMAIN calls :
          /\ calls[i].pc = "returned"
          /\ calls[i].attempts = 3
          /\ calls[i].delay = Some(1000)
          /\ calls[i].result[1].status = "error"

(***************************************************************************)
(* C15.  When an attempt of a callAdapter invocation, the first or a       *)
(* later one, fails with a status in [400,500), the invocation ends at     *)
(* once with an 'error' result: it makes no further attempt and waits no   *)
(* delay after that attempt, however many attempts remain.                 *)
(***************************************************************************)
C15_ClientErrorStopsAtOnce ==
    \A i \in DOMAIN calls :
        (calls[i].lastOutcome # None /\ ClientFailure(calls[i].lastOutcome[1])) =>
            /\ calls[i].pc = "returned"
            /\ calls[i].result[1].status = "error"
            /\ calls[i].result[1].error =
                  Some(FailureMessage(calls[i].adapterId, calls[i].lastOutcome[1]))
            /\ calls[i].sleeps = calls[i].attempts - 1

\* the second of three attempts failed with a 4xx status after a first retryable failure
C15_Witness ==
    \E i \in DOMAIN calls :
        /\ retryConfig.maxAttempts = 3
        /\ calls[i].attempts = 2
        /\ calls[i].pc = "returned"
        /\ ~ClientFailure(calls[i].firstOutcome[1])
        /\ ClientFailure(calls[i].lastOutcome[1])

(***************************************************************************)
(* C16 as claimed.  Health check cycles never overlap: at no time are two  *)
(* executions of checkSystemHealth in progress on the same HealthManager,  *)
(* whatever the interleaving of startMonitoring calls, timer ticks and     *)
(* probe durations.                                                        *)
(***************************************************************************)
\* the executions of checkSystemHealth that have begun and not yet returned
CyclesInProgress == {n \in DOMAIN cycles : cycles[n].status = "probing"}

C16_CyclesNeverOverlap == Cardinality(CyclesInProgress) <= 1

(***************************************************************************)
(* C17.  In a sequential chain (runBeforeLLM or runAfterLLM) the adapter   *)
(* at position i+1 is not invoked, and no transport attempt is made for    *)
(* it, before the invocation of the adapter at position i has finished     *)
(* all its attempts and delays and resolved.                               *)
(***************************************************************************)
\* the invocations that still have an attempt or a backoff delay outstanding
CallsInFlight == {k \in DOMAIN calls : calls[k].pc \in {"fetch", "sleep"}}

C17_SequentialChainWaits ==
    run.kind \in {"before", "after"} =>
        /\ \A k \in DOMAIN calls :
              (k < Len(calls) /\ calls[k + 1].attempts >= 1) =>
                  /\ calls[k].pc = "returned"
                  /\ calls[k].result # None
        /\ Cardinality(CallsInFlight) <= 1
        /\ CallsInFlight \subseteq {Len(calls)}

\* the second adapter of a runAfterLLM is in its backoff delay; the first had retried
C17_Witness ==
    /\ run.kind = "after"
    /\ Len(calls) = 2
    /\ calls[1].attempts = 2
    /\ calls[1].sleeps = 1
    /\ calls[2].pc = "sleep"

(***************************************************************************)
(* C18.  In runBeforeLLM the context sent with every transport attempt of  *)
(* the adapter at position k is the initial context with the updates of    *)
(* the adapters at positions 1..k-1 merged in list order: all of each of   *)
(* them, and nothing of a later one.                                       *)
(***************************************************************************)
C18_BeforeSendsMergedContext ==
    run.kind = "before" =>
        \A k \in DOMAIN calls :
            calls[k].sent # None =>
                calls[k].sent[1].context = MergedInListOrder(run.given[1], k - 1)

\* the second attempt of the second adapter carries the update of the first adapter
C18_Witness ==
    /\ run.kind = "before"
    /\ Len(calls) = 2
    /\ calls[1].result[1].data = Some([x |-> 1])
    /\ calls[2].attempts = 2
    /\ calls[2].pc = "fetch"
    /\ calls[2].sent[1].context = [x |-> 1, u |-> 7]
    /\ run.given[1] = [x |-> 0, u |-> 7]

(***************************************************************************)
(* C19 as claimed.  Every network call of callAdapter is a bounded wait:   *)
(* an attempt the transport never answers still ends, so every             *)
(* callAdapter invocation eventually returns or raises.                    *)
(***************************************************************************)
C19_CallEventuallyReturns ==
    (calls # <<>>) ~> (\A i \in DOMAIN calls : Completed(calls[i]))

(***************************************************************************)
(* C20.  With an adapter whose every probe attempt fails, every            *)
(* checkSystemHealth cycle still ends with a snapshot that holds a record  *)
(* for every adapter of the registry (an unhealthy one with a message for  *)
(* the failing adapter): a cycle that has its snapshot keeps it, so from   *)
(* some time on every cycle that was started has one.  No cycle ends by    *)
(* raising; and a failing probe leaves the timer alone, so that while      *)
(* monitoring is running the timer is active and starts later cycles.      *)
(***************************************************************************)
\* cycle n has returned a snapshot with a record of this cycle for every adapter
SnapshotComplete(n) ==
    /\ n \in DOMAIN cycles
    /\ cycles[n].snapshot # None
    /\ DOMAIN cycles[n].snapshot[1].adapters = Range(adapterRegistry)
    /\ \A id \in Range(adapterRegistry) :
          cycles[n].snapshot[1].adapters[id].message # Some("Not checked yet")
    /\ \A id \in PermanentlyFailing :
          /\ cycles[n].snapshot[1].adapters[id].status = "unhealthy"
          /\ cycles[n].snapshot[1].adapters[id].message # None
    /\ cycles[n].snapshot[1].status = "unhealthy"

C20_MonitoringSurvivesFailures ==
    /\ [](\A n \in DOMAIN cycles : cycles[n].status \in {"probing", "done"})
    /\ [](checkInterval # None => ActiveTimers = Range(checkInterval))
    /\ [][cycles' # cycles /\ Len(cycles') = Len(cycles)
            => UNCHANGED <<checkInterval, timers>>]_vars
    /\ <>[](\A n \in DOMAIN cycles : SnapshotComplete(n))

\* after a cycle in which the failing adapter used up its attempts, a tick of the
\* timer started a later cycle, which found the adapter failing again
C20_Witness ==
    /\ Len(cycles) = 2
    /\ SnapshotComplete(1)
    /\ SnapshotComplete(2)
    /\ cycles[1].probed[1].result[1].status = "error"
    /\ cycles[2].probed[1].result[1].status = "error"
    /\ checkInterval = Some(1)
    /\ lastOp = "other"

(***************************************************************************)
(* C21.  Across checkSystemHealth, startMonitoring and stopMonitoring the  *)
(* set of adapters with a stored health record never shrinks: once         *)
(* getAdapterHealth returns a record for an adapter it never returns       *)
(* undefined for it again; and records are stored for adapters of the      *)
(* registry only.                                                          *)
(***************************************************************************)
C21_RecordsNeverDeleted ==
    /\ [](DOMAIN healthState \subseteq Range(adapterRegistry))
    /\ [][\A id \in Range(adapterRegistry) :
            getAdapterHealth(id) # None => getAdapterHealth(id)' # None]_vars

\* monitoring was started and stopped; the record of the first adapter was written
\* again by a second cycle, the record of the second adapter is still the first cycle's
C21_Witness ==
    /\ lastOp = "stop"
    /\ checkInterval = None
    /\ Len(timers) >= 1
    /\ getAdapterHealth(adapterRegistry[1]) # None
    /\ getAdapterHealth(adapterRegistry[1])[1].lastCheck = 2
    /\ getAdapterHealth(adapterRegistry[2]) # None
    /\ getAdapterHealth(adapterRegistry[2])[1].lastCheck = 1

(***************************************************************************)
(* C22.  The context object the caller supplied is left as it was by       *)
(* callAdapter and by runBeforeLLM, runAfterLLM and runParallel, whether   *)
(* the call succeeds or fails: no step writes to it, and at every moment   *)
(* of a run it is what it was when the run began.                          *)
(***************************************************************************)
C22_CallerContextUntouched ==
    /\ [][heap'.caller = heap.caller]_vars
    /\ [](run.given # None => heap.caller = run.given[1])

\* a runBeforeLLM that failed at its second adapter, after it had merged the update
\* of the first into its own copy
C22_Witness ==
    /\ run.kind = "before"
    /\ run.status = "raised"
    /\ Len(calls) = 2
    /\ calls[1].result[1].data = Some([x |-> 1])
    /\ heap.local = [x |-> 1, u |-> 7]
    /\ heap.caller = [x |-> 0, u |-> 7]

(***************************************************************************)
(* C23 as claimed.  The retry policy in force on a constructed client has  *)
(* maxAttempts >= 1, baseDelay >= 0, maxDelay >= baseDelay and             *)
(* backoffMultiplier >= 1, whatever partial retry configuration the        *)
(* client was constructed with.                                            *)
(***************************************************************************)
C23_PolicyWellFormed ==
    /\ retryConfig.maxAttempts >= 1
    /\ retryConfig.baseDelay >= 0
    /\ retryConfig.maxDelay >= retryConfig.baseDelay
    /\ retryConfig.backoffMultiplier >= 1

(***************************************************************************)
(* C24.  A failure the adapter reports itself - a response with a success  *)
(* HTTP status whose body has status 'error' - is what callAdapter         *)
(* returns, with no further attempt and no backoff delay after it; and     *)
(* the orchestrator handles it as it handles any 'error' result: a         *)
(* sequential chain raises naming the adapter and invokes no later one,    *)
(* and runParallel raises once its invocations have completed.             *)
(***************************************************************************)
\* the transport outcome o is a failure reported by the adapter in an answer that is ok
ReportedFailure(o) ==
    o.kind = "response" /\ o.status \in 200..299 /\ o.body.status = "error"

C24_ReportedFailureIsFinal ==
    \A k \in DOMAIN calls :
        (calls[k].lastOutcome # None /\ ReportedFailure(calls[k].lastOutcome[1])) =>
            /\ calls[k].pc = "returned"
            /\ calls[k].result = Some(calls[k].lastOutcome[1].body)
            /\ calls[k].sleeps = calls[k].attempts - 1
            /\ run.kind = "before" =>
                  /\ run.status = "raised"
                  /\ run.error = Some("Adapter " \o run.adapterIds[k]
                                      \o " failed after retries: adapter refused")
                  /\ Len(calls) = k
            /\ run.kind = "after" =>
                  /\ run.status = "raised"
                  /\ run.error = Some("Post-LLM adapter " \o run.adapterIds[k]
                                      \o " failed after retries: adapter refused")
                  /\ Len(calls) = k
            /\ run.kind = "parallel" =>
                  /\ run.status \in {"running", "raised"}
                  /\ (\A j \in DOMAIN calls : Completed(calls[j])) => run.status = "raised"

\* the first adapter of a runBeforeLLM over two reported a failure in the answer to
\* its first attempt, with an attempt to spare
C24_Witness ==
    /\ run.kind = "before"
    /\ run.status = "raised"
    /\ Len(run.adapterIds) = 2
    /\ Len(calls) = 1
    /\ retryConfig.maxAttempts >= 2
    /\ calls[1].attempts = 1
    /\ ReportedFailure(calls[1].lastOutcome[1])

(***************************************************************************)
(* C25 as claimed.  Once all probes in flight have finished, the stored    *)
(* health record of an adapter is the result of the most recently started  *)
(* probe of that adapter.  Stated for the adapter every cycle probes       *)
(* first: its probes start in the order of the cycles, so its stored       *)
(* record is the one of the last cycle.                                    *)
(***************************************************************************)
C25_LatestProbeWins ==
    (cycles # <<>> /\ CyclesInProgress = {}) =>
        /\ getAdapterHealth(adapterRegistry[1]) # None
        /\ getAdapterHealth(adapterRegistry[1])[1] =
              cycles[Len(cycles)].snapshot[1].adapters[adapterRegistry[1]]

(***************************************************************************)
(* C26 as claimed.  After stopMonitoring, and until startMonitoring is     *)
(* called again, the Health Monitor issues no further probe invocation     *)
(* and changes no health record, also not for the remaining adapters of a  *)
(* cycle that was in flight at the stop.                                   *)
(***************************************************************************)
\* the probe invocations issued so far: <<n, k>> is cycle n's probe of the adapter at
\* registry position k
ProbesIssued ==
    {nk \in (DOMAIN cycles) \X (DOMAIN adapterRegistry) :
        \/ nk[2] <= Len(cycles[nk[1]].probed)
        \/ cycles[nk[1]].status = "probing" /\ nk[2] = cycles[nk[1]].pos}

\* monitoring is stopped and stays so over the step (no startMonitoring)
StaysStopped == timers # <<>> /\ checkInterval = None /\ checkInterval' = None

C26_StopSilencesMonitor ==
    [][StaysStopped => (ProbesIssued' = ProbesIssued /\ healthState' = healthState)]_vars

(***************************************************************************)
(* C26 as amended.  After stopMonitoring, and until startMonitoring is     *)
(* called again, no timer is active and no new check cycle begins; a       *)
(* cycle that was in flight at the stop runs on to its end.                *)
(***************************************************************************)
C26_StopStartsNoNewCycle ==
    /\ [](checkInterval = None => ActiveTimers = {})
    /\ [][StaysStopped => (/\ Len(cycles') = Len(cycles)
                           /\ \A n \in DOMAIN cycles :
                                 cycles[n].status = "done" => cycles'[n] = cycles[n])]_vars

\* the only cycle was in flight when monitoring was stopped, and has since probed its
\* last adapter and stored the record
C26_Witness ==
    /\ timers = <<FALSE>>
    /\ checkInterval = None
    /\ lastOp = "other"
    /\ Len(cycles) = 1
    /\ cycles[1].status = "done"
    /\ DOMAIN healthState = Range(adapterRegistry)

====
